---------------------------- MODULE Spec2Model ----------------------------
(***************************************************************************)
(* Memory-quantum store of TAKAWASI-Unified-Agent.                         *)
(*                                                                         *)
(* Two classes implement the store:                                        *)
(*   MemoryQuantumCore          (src/memory_quantum_core.py)               *)
(*   MemoryQuantumCoreComplete  (src/memory_quantum_core_complete.py)      *)
(* A process instantiates one of them; `impl` records which one.  Each     *)
(* class has its own SQLite file and its own in-memory working set, so     *)
(* each has its own variables here.                                        *)
(*                                                                         *)
(* Conventions                                                             *)
(*  - Scores are Python floats in the source.  Here they are integers in   *)
(*    thousandths (Scale = 1000 stands for 1.0); products that are not a   *)
(*    whole number of thousandths are rounded down.                        *)
(*  - A text (content, query) is the sequence of its words; the text       *)
(*    itself is the words joined by single blanks (ContentString).  All    *)
(*    inputs are lower-case ASCII words, so str.lower() leaves them as     *)
(*    they are and str.split() / re.findall(r'\b\w+\b') give the words.    *)
(*  - datetime.now() is the wall clock: every call of an operation reads   *)
(*    a time `now` from Times.  The wall clock is local time; nothing      *)
(*    makes it strictly increasing between two calls (clock adjustment,    *)
(*    end of daylight saving time), so `now` is an unconstrained input.    *)
(*    All times of one run lie within one day.                             *)
(*  - Append-only logs and counters that no operation reads back           *)
(*    (access_patterns, quantum_access_log, tsl_analysis_results,          *)
(*    quantum_clusters, cache_hits, cache_misses, search_operations, ...)  *)
(*    are left out of the state.                                           *)
(*  - lastOp is a history variable: the last completed call, its           *)
(*    arguments and what it returned.  issued_ids is a history variable:   *)
(*    every id a store has handed out for a new record.                    *)
(***************************************************************************)
EXTENDS Integers, Sequences, FiniteSets, TLC

VARIABLES
    impl,                  \* "core" | "complete": the class instantiated
    memory_quantums,       \* core: table memory_quantums, id -> row
    quantum_cache,         \* core: self.quantum_cache, in dict (insertion) order
    quantum_relationships, \* core: table quantum_relationships, in rowid order
    metrics,               \* core: self.metrics
    cmemory_quantums,      \* complete: table memory_quantums, quantum_id -> row
    active_quantums,       \* complete: self.active_quantums, quantum_id -> quantum
    performance_metrics,   \* complete: self.performance_metrics
    issued_ids,            \* history: ids given to new records so far
    threads,               \* per calling thread: the call it is in the middle of
    lastOp                 \* history: the last completed call

vars == <<impl, memory_quantums, quantum_cache, quantum_relationships, metrics,
          cmemory_quantums, active_quantums, performance_metrics,
          issued_ids, threads, lastOp>>

coreVars == <<memory_quantums, quantum_cache, quantum_relationships, metrics>>
completeVars == <<cmemory_quantums, active_quantums, performance_metrics>>

---------------------------------------------------------------------------
(* Bounds of the model *)

\* A core search is taken only while every access count of the working set
\* is below MaxAccess.
MaxAccess == 2
\* A store of the complete class is taken only while every access count of
\* active_quantums is below MaxReinforcement.
MaxReinforcement == 3
\* A link is taken only while the edge table holds fewer than MaxEdges rows.
MaxEdges == 2
\* A store that creates a record is taken only while total_quantums is below
\* MaxRecords.
MaxRecords == 2
\* The on-demand consolidation is taken only while fewer than
\* MaxConsolidations passes have been counted.
MaxConsolidations == 2
\* In SpecConsolidate a store is taken only while total_quantums is below
\* MaxCacheRecords, one more than the scaled max_memory_size.
MaxCacheRecords == 3

(* Program constants.  The three sizes are scaled down, keeping their      *)
(* order consolidation_interval <= load limit < max_memory_size.           *)
Scale == 1000
\* self.max_memory_size = 10000
max_memory_size == 2
\* self.consolidation_interval = 100
consolidation_interval == 1
\* cache_limit = min(1000, total_count)
cache_load_limit == 1
\* self.relevance_threshold = 0.3
relevance_threshold == 300
\* sorted(embeddings.items(), ...)[:20]
embedding_limit == 20

\* The precision of a float, in significant decimal digits (scaled down from
\* the 53 bits of a Python float)
SignificantDigits == 2
\* reinforcement_level > 10 (scaled down)
reinforced_after == 1
\* reinforcement_level > 50 (scaled down)
crystallized_after == 2
\* total_score > 0.1
min_total_score == 100

\* The readings of the wall clock a call can get: two instants, in either
\* order and repeated (datetime.now() is local time and is not monotonic).
Times == {1, 2}

---------------------------------------------------------------------------
(* Generic helpers *)

Min(a, b) == IF a <= b THEN a ELSE b
Max(a, b) == IF a >= b THEN a ELSE b
Range(s) == {s[i] : i \in DOMAIN s}

\* s[:n]
Take(s, n) == SubSeq(s, 1, Min(Len(s), Max(n, 0)))

\* " ".join(words)
RECURSIVE ContentString(_)
ContentString(words) ==
    IF words = <<>> THEN ""
    ELSE IF Len(words) = 1 THEN words[1]
    ELSE words[1] \o " " \o ContentString(Tail(words))

\* t in s (Python), s LIKE '%t%' (SQL), for strings
IsSubstring(t, s) ==
    \/ Len(t) = 0
    \/ \E i \in 1..(Len(s) - Len(t) + 1) : SubSeq(s, i, i + Len(t) - 1) = t

\* list.sort(key=..., reverse=True) / sorted(..., reverse=True) on a sequence
\* of records that carry their sort key in field `key`: descending, stable.
RECURSIVE InsertByKey(_, _)
InsertByKey(sorted, x) ==
    IF sorted = <<>> THEN <<x>>
    ELSE IF Head(sorted).key >= x.key
         THEN <<Head(sorted)>> \o InsertByKey(Tail(sorted), x)
         ELSE <<x>> \o sorted

RECURSIVE SortDescStable(_)
SortDescStable(s) ==
    IF s = <<>> THEN <<>>
    ELSE InsertByKey(SortDescStable(SubSeq(s, 1, Len(s) - 1)), s[Len(s)])

\* The orders in which SQL may return the rows S under ORDER BY k1 DESC, k2 DESC:
\* every arrangement of S that is descending in (k1, k2); rows that tie come
\* in an order SQL leaves open.
OrderedRows(S, k1, k2) ==
    {s \in [1..Cardinality(S) -> S] :
        /\ \A i, j \in DOMAIN s : i # j => s[i] # s[j]
        /\ \A i, j \in DOMAIN s : i < j =>
              \/ k1[s[i]] > k1[s[j]]
              \/ k1[s[i]] = k1[s[j]] /\ k2[s[i]] >= k2[s[j]]}

\* s without the elements that fail Keep
RECURSIVE SelectSeqBy(_, _)
SelectSeqBy(s, keepSet) ==
    IF s = <<>> THEN <<>>
    ELSE IF Head(s) \in keepSet
         THEN <<Head(s)>> \o SelectSeqBy(Tail(s), keepSet)
         ELSE SelectSeqBy(Tail(s), keepSet)

---------------------------------------------------------------------------
(* MemoryQuantumCore: inputs *)

\* The (content, content_type, tags) a caller stores.
CoreDocs ==
    { [content |-> <<>>, content_type |-> "user_preference", tags |-> <<"err">>],
      [content |-> <<"task", "err">>, content_type |-> "task_result",
       tags |-> <<"task">>] }

\* The calls of search_memory_quantums: query (as its word sequence),
\* content_type ("" stands for None), limit, relevance_threshold (0 stands
\* for None: both are falsy in `relevance_threshold or self.relevance_threshold`).
CoreSearches ==
    { [query |-> <<"task", "err">>, content_type |-> "", limit |-> 2,
       relevance_threshold |-> 0],
      [query |-> <<"task", "err">>, content_type |-> "", limit |-> 1,
       relevance_threshold |-> 900],
      [query |-> <<"err">>, content_type |-> "task_result", limit |-> 1,
       relevance_threshold |-> 0] }
\* threshold argument of cleanup_low_relevance (default 0.1).
CleanupThresholds == { 100, 700 }
RelationshipTypes == { "related", "causes" }
Strengths == { 800 }
\* An id no store has issued.
UnknownId == [ts |-> 0, hash |-> "unknown"]

---------------------------------------------------------------------------
(* MemoryQuantumCore: pure functions *)

\* content_hash[:8] of hashlib.md5(content): one label per content; the
\* model's contents are given distinct labels (no collision among them).
ContentHash(content) == ContentString(content)

\* quantum_id = f"mq_{timestamp}_{content_hash[:8]}"
CoreQuantumId(content, now) == [ts |-> now, hash |-> ContentHash(content)]

\* type_multipliers.get(content_type, 1.0), times 10
TypeMultiplier10(content_type) ==
    CASE content_type = "task_result" -> 12
      [] content_type = "error_log" -> 11
      [] content_type = "success_pattern" -> 13
      [] content_type = "user_preference" -> 14
      [] content_type = "system_config" -> 11
      [] content_type = "general" -> 10
      [] OTHER -> 10

UnclampedInitialRelevance(content, content_type, tags) ==
    LET base_relevance == 500
        length_bonus == Min(Len(ContentString(content)), 200)
        tag_bonus == Min(Len(tags) * 50, 150)
    IN  ((base_relevance + length_bonus + tag_bonus)
            * TypeMultiplier10(content_type)) \div 10

CalculateInitialRelevance(content, content_type, tags) ==
    Min(UnclampedInitialRelevance(content, content_type, tags), Scale)

\* (datetime.now() - last_accessed).days : 0 within a day, -1 as soon as
\* the difference is negative.
DaysSince(now, last_accessed) == IF now < last_accessed THEN -1 ELSE 0

CalculateSimilarity(query_terms, quantum, now) ==
    LET content_terms == Range(quantum.content)
        tag_terms == Range(quantum.tags)
        n == Max(Cardinality(query_terms), 1)
        content_overlap06 == (600 * Cardinality(query_terms \cap content_terms)) \div n
        tag_overlap03 == (300 * Cardinality(query_terms \cap tag_terms)) \div n
        access_bonus == Min(quantum.access_count * 100, 200)
        recency_bonus == Max(0, 100 - DaysSince(now, quantum.last_accessed) * 10)
    IN  Min(content_overlap06 + tag_overlap03 + access_bonus + recency_bonus, Scale)

\* The key of the sort in search_memory_quantums, times 10:
\* relevance_score * 0.6 + similarity_score * 0.4
CombinedScore(result) == 6 * result.relevance_score + 4 * result.similarity_score

\* The key of the sort in _consolidate_memory, times 1000:
\* relevance*0.6 + (access_count/100)*0.2 + (1/max(days,1))*0.2
ConsolidationScore(quantum, now) ==
    600 * quantum.relevance_score
    + 2 * quantum.access_count * Scale
    + (200 * Scale) \div Max(DaysSince(now, quantum.last_accessed), 1)

---------------------------------------------------------------------------
(* MemoryQuantumCore: the cache (a dict: insertion order, one entry per id) *)

CacheIds(cache) == {cache[i].id : i \in DOMAIN cache}
CacheIndex(cache, id) == CHOOSE i \in DOMAIN cache : cache[i].id = id
CacheGet(cache, id) == cache[CacheIndex(cache, id)]

\* self.quantum_cache[quantum.id] = quantum
CachePut(cache, quantum) ==
    IF quantum.id \in CacheIds(cache)
    THEN [cache EXCEPT ![CacheIndex(cache, quantum.id)] = quantum]
    ELSE Append(cache, quantum)

\* del self.quantum_cache[id] for every id in ids
RECURSIVE CacheRemove(_, _)
CacheRemove(cache, ids) ==
    IF cache = <<>> THEN <<>>
    ELSE IF Head(cache).id \in ids
         THEN CacheRemove(Tail(cache), ids)
         ELSE <<Head(cache)>> \o CacheRemove(Tail(cache), ids)

\* A table row of quantum (the columns the program reads back).
QuantumRow(quantum) ==
    [content |-> quantum.content, content_type |-> quantum.content_type,
     relevance_score |-> quantum.relevance_score,
     access_count |-> quantum.access_count,
     last_accessed |-> quantum.last_accessed,
     tags |-> quantum.tags, relationships |-> quantum.relationships]

\* _row_to_quantum
RowToQuantum(table, id) ==
    [id |-> id, content |-> table[id].content,
     content_type |-> table[id].content_type,
     relevance_score |-> table[id].relevance_score,
     access_count |-> table[id].access_count,
     last_accessed |-> table[id].last_accessed,
     tags |-> table[id].tags, relationships |-> table[id].relationships]

\* A faulty variant of StoreQuantumDb: the insert replaces every row that
\* holds the same content, not only the row with the same id
StoreQuantumDbByContent(table, quantum) ==
    [id \in {r \in DOMAIN table : table[r].content # quantum.content}
              \cup {quantum.id} |->
        IF id = quantum.id THEN QuantumRow(quantum) ELSE table[id]]

\* INSERT OR REPLACE INTO memory_quantums: the row keyed by the primary key
\* id is written, replacing a row that has this id.
StoreQuantumDb(table, quantum) ==
    [id \in DOMAIN table \cup {quantum.id} |->
        IF id = quantum.id THEN QuantumRow(quantum) ELSE table[id]]

\* UPDATE memory_quantums SET relevance_score = ? WHERE id = ?
UpdateQuantumRelevance(table, id, new_relevance) ==
    IF id \in DOMAIN table
    THEN [table EXCEPT ![id].relevance_score = new_relevance]
    ELSE table

---------------------------------------------------------------------------
(* MemoryQuantumCore: operations *)

\* json.dumps(tags): '["a", "b"]'
RECURSIVE TagsJsonItems(_)
TagsJsonItems(tags) ==
    IF tags = <<>> THEN ""
    ELSE IF Len(tags) = 1 THEN "\"" \o tags[1] \o "\""
    ELSE "\"" \o tags[1] \o "\", " \o TagsJsonItems(Tail(tags))

TagsJson(tags) == "[" \o TagsJsonItems(tags) \o "]"

\* A faulty variant of DecayEvicted: the decayed score is written for every
\* quantum below the cut, whatever its relevance_score
RECURSIVE DecayEvictedAll(_, _)
DecayEvictedAll(table, to_remove) ==
    IF to_remove = <<>> THEN table
    ELSE LET quantum == Head(to_remove).quantum
         IN  DecayEvictedAll(
                UpdateQuantumRelevance(table, quantum.id,
                                       (quantum.relevance_score * 8) \div 10),
                Tail(to_remove))

\* for quantum_id, quantum in quantums_to_remove:
\*     if quantum.relevance_score < self.relevance_threshold: ...
\*         await self._update_quantum_relevance(quantum_id, relevance * 0.8)
RECURSIVE DecayEvicted(_, _)
DecayEvicted(table, to_remove) ==
    IF to_remove = <<>> THEN table
    ELSE LET quantum == Head(to_remove).quantum
         IN  IF quantum.relevance_score < relevance_threshold
             THEN DecayEvicted(
                    UpdateQuantumRelevance(table, quantum.id,
                                           (quantum.relevance_score * 8) \div 10),
                    Tail(to_remove))
             ELSE DecayEvicted(table, Tail(to_remove))

\* _consolidate_memory: the cache, table and metrics it leaves.
ConsolidateMemory(cache, table, mtr, now) ==
    IF Len(cache) <= max_memory_size
    THEN [cache |-> cache, table |-> table, metrics |-> mtr]
    ELSE LET keyed == [i \in DOMAIN cache |->
                          [key |-> ConsolidationScore(cache[i], now),
                           quantum |-> cache[i]]]
             quantums_by_score == SortDescStable(keyed)
             quantums_to_remove ==
                 SubSeq(quantums_by_score, max_memory_size + 1,
                        Len(quantums_by_score))
             evicted == {quantums_to_remove[i].quantum.id :
                            i \in {j \in DOMAIN quantums_to_remove :
                                     quantums_to_remove[j].quantum.relevance_score
                                        < relevance_threshold}}
         IN  [cache |-> CacheRemove(cache, evicted),
              table |-> DecayEvicted(table, quantums_to_remove),
              metrics |-> [mtr EXCEPT !.consolidations_performed = @ + 1]]

\* The quantum object store_memory_quantum builds.
NewQuantum(content, content_type, tags, now) ==
    [id |-> CoreQuantumId(content, now),
     content |-> content,
     content_type |-> content_type,
     relevance_score |-> CalculateInitialRelevance(content, content_type, tags),
     access_count |-> 1,
     last_accessed |-> now,
     tags |-> tags,
     relationships |-> <<>>]

\* store_memory_quantum(content, content_type, tags)
StoreMemoryQuantum(content, content_type, tags, now) ==
    LET quantum == NewQuantum(content, content_type, tags, now)
        table1 == StoreQuantumDb(memory_quantums, quantum)
        cache1 == CachePut(quantum_cache, quantum)
        metrics1 == [metrics EXCEPT !.total_quantums = @ + 1]
        after == IF Len(cache1) > consolidation_interval
                 THEN ConsolidateMemory(cache1, table1, metrics1, now)
                 ELSE [cache |-> cache1, table |-> table1, metrics |-> metrics1]
    IN  /\ impl = "core"
        /\ memory_quantums' = after.table
        /\ quantum_cache' = after.cache
        /\ metrics' = after.metrics
        /\ issued_ids' = issued_ids \cup {quantum.id}
        /\ lastOp' = [op |-> "store",
                      args |-> [content |-> content, content_type |-> content_type,
                                tags |-> tags],
                      created |-> TRUE,
                      ret |-> quantum.id]
        /\ UNCHANGED <<impl, threads, quantum_relationships, completeVars>>

\* The result dict search builds for a quantum.
SearchResult(quantum, similarity) ==
    [quantum_id |-> quantum.id,
     content |-> quantum.content,
     content_type |-> quantum.content_type,
     relevance_score |-> quantum.relevance_score,
     similarity_score |-> similarity,
     access_count |-> quantum.access_count]

\* The cache entries the loop of search_memory_quantums appends to
\* cache_results (and records an access for), in cache order.
RECURSIVE CacheHits(_, _, _, _, _)
CacheHits(cache, query_terms, content_type, threshold, now) ==
    IF cache = <<>> THEN <<>>
    ELSE LET quantum == Head(cache)
             rest == CacheHits(Tail(cache), query_terms, content_type, threshold, now)
             similarity == CalculateSimilarity(query_terms, quantum, now)
         IN  IF content_type # "" /\ quantum.content_type # content_type
             THEN rest
             ELSE IF similarity >= threshold
                  THEN <<SearchResult(quantum, similarity)>> \o rest
                  ELSE rest

\* _record_access for every id in ids: the cache after it
RecordAccessCache(cache, ids, now) ==
    [i \in DOMAIN cache |->
        IF cache[i].id \in ids
        THEN [cache[i] EXCEPT !.access_count = @ + 1, !.last_accessed = now]
        ELSE cache[i]]

\* A faulty variant: the UPDATE of the row is left out
RecordAccessDbSkipped(table, ids, now) == table

\* _record_access for every id in ids: the table after it
\* (UPDATE ... SET access_count = access_count + 1, last_accessed = ? WHERE id = ?)
RecordAccessDb(table, ids, now) ==
    [id \in DOMAIN table |->
        IF id \in ids
        THEN [table[id] EXCEPT !.access_count = @ + 1, !.last_accessed = now]
        ELSE table[id]]

\* cache_results.sort(key=relevance*0.6 + similarity*0.4, reverse=True)
SortCacheResults(cache_results) ==
    LET keyed == [i \in DOMAIN cache_results |->
                     [key |-> CombinedScore(cache_results[i]),
                      result |-> cache_results[i]]]
        sorted == SortDescStable(keyed)
    IN  [i \in DOMAIN sorted |-> sorted[i].result]

\* The WHERE clause of _search_database.
DbRowMatches(row, query, content_type, threshold) ==
    /\ row.relevance_score >= threshold
    /\ content_type # "" => row.content_type = content_type
    /\ \A term \in Range(Take(query, 3)) :
          \/ IsSubstring(term, ContentString(row.content))
          \/ IsSubstring(term, TagsJson(row.tags))

\* A faulty variant: the rows that are in the cache are not skipped
SearchDatabaseAll(table, cache, query, content_type, limit, threshold, now) ==
    LET matching == {id \in DOMAIN table :
                        DbRowMatches(table[id], query, content_type, threshold)}
        Relevance == [id \in matching |-> table[id].relevance_score]
        Zero == [id \in matching |-> 0]
    IN  { LET rows == Take(ordered, limit)
          IN  [i \in DOMAIN rows |->
                 SearchResult(RowToQuantum(table, rows[i]),
                              CalculateSimilarity(Range(query),
                                                  RowToQuantum(table, rows[i]),
                                                  now))]
          : ordered \in OrderedRows(matching, Relevance, Zero) }

\* _search_database: the lists it may return (SQL leaves the order of rows
\* of equal relevance_score open).
SearchDatabase(table, cache, query, content_type, limit, threshold, now) ==
    LET matching == {id \in DOMAIN table :
                        DbRowMatches(table[id], query, content_type, threshold)}
        Relevance == [id \in matching |-> table[id].relevance_score]
        Zero == [id \in matching |-> 0]
    IN  { LET rows == Take(ordered, limit)
              uncached == SelectSeqBy(rows, DOMAIN table \ CacheIds(cache))
          IN  [i \in DOMAIN uncached |->
                 SearchResult(RowToQuantum(table, uncached[i]),
                              CalculateSimilarity(Range(query),
                                                  RowToQuantum(table, uncached[i]),
                                                  now))]
          : ordered \in OrderedRows(matching, Relevance, Zero) }

\* search_memory_quantums(query, content_type, limit, relevance_threshold)
SearchMemoryQuantums(query, content_type, limit, rel_threshold, now) ==
    LET threshold == IF rel_threshold # 0 THEN rel_threshold ELSE relevance_threshold
        hits == CacheHits(quantum_cache, Range(query), content_type, threshold, now)
        hit_ids == {hits[i].quantum_id : i \in DOMAIN hits}
        cache_results == SortCacheResults(hits)
        cache1 == RecordAccessCache(quantum_cache, hit_ids, now)
        table1 == RecordAccessDb(memory_quantums, hit_ids, now)
        search_results == Take(cache_results, limit)
    IN  /\ impl = "core"
        /\ quantum_cache' = cache1
        /\ memory_quantums' = table1
        /\ \E db_results \in
              IF Len(search_results) < limit
              THEN SearchDatabase(table1, cache1, query, content_type,
                                  limit - Len(search_results), threshold, now)
              ELSE {<<>>} :
              lastOp' = [op |-> "search",
                         args |-> [query |-> query, content_type |-> content_type,
                                   limit |-> limit,
                                   relevance_threshold |-> rel_threshold],
                         ret |-> Take(search_results \o db_results, limit)]
        /\ UNCHANGED <<impl, threads, quantum_relationships, metrics, issued_ids, completeVars>>

\* The on-demand consolidation pass: _consolidate_memory()
Consolidate(now) ==
    LET after == ConsolidateMemory(quantum_cache, memory_quantums, metrics, now)
    IN  /\ impl = "core"
        /\ memory_quantums' = after.table
        /\ quantum_cache' = after.cache
        /\ metrics' = after.metrics
        /\ lastOp' = [op |-> "consolidate", args |-> <<>>, ret |-> <<>>]
        /\ UNCHANGED <<impl, threads, quantum_relationships, issued_ids, completeVars>>

\* self.quantum_cache[id].relationships.append(other) unless it is there
AddRelationship(cache, id, other) ==
    IF id \in CacheIds(cache) /\ other \notin Range(CacheGet(cache, id).relationships)
    THEN [cache EXCEPT ![CacheIndex(cache, id)].relationships = Append(@, other)]
    ELSE cache

\* INSERT OR REPLACE INTO quantum_relationships (source_quantum_id,
\* target_quantum_id, relationship_type, strength): the only key of the table
\* is its AUTOINCREMENT id, which the statement does not give, so every
\* execution adds a row.
InsertRelationship(edges, source_id, target_id, relationship_type, strength) ==
    Append(edges, [source_quantum_id |-> source_id,
                   target_quantum_id |-> target_id,
                   relationship_type |-> relationship_type,
                   strength |-> strength])

\* create_quantum_relationship(source_id, target_id, relationship_type, strength)
CreateQuantumRelationship(source_id, target_id, relationship_type, strength) ==
    /\ impl = "core"
    /\ quantum_relationships' =
          InsertRelationship(quantum_relationships, source_id, target_id,
                             relationship_type, strength)
    /\ quantum_cache' =
          AddRelationship(AddRelationship(quantum_cache, source_id, target_id),
                          target_id, source_id)
    /\ lastOp' = [op |-> "link",
                  args |-> [source_id |-> source_id, target_id |-> target_id,
                            relationship_type |-> relationship_type,
                            strength |-> strength],
                  ret |-> <<>>]
    /\ UNCHANGED <<impl, threads, memory_quantums, metrics, issued_ids, completeVars>>

\* A faulty variant of RelatedJoin: the join on the source side of the edge
\* only
RelatedJoinForward(mq_id, edge, quantum_id, relationship_types) ==
    /\ edge.source_quantum_id = quantum_id /\ edge.target_quantum_id = mq_id
    /\ relationship_types # <<>> =>
          edge.relationship_type \in Range(relationship_types)

\* The ON clause of the join in get_related_quantums, with the WHERE clause
\* on the relationship type (relationship_types = <<>> stands for None).
RelatedJoin(mq_id, edge, quantum_id, relationship_types) ==
    /\ \/ edge.source_quantum_id = quantum_id /\ edge.target_quantum_id = mq_id
       \/ edge.target_quantum_id = quantum_id /\ edge.source_quantum_id = mq_id
    /\ relationship_types # <<>> =>
          edge.relationship_type \in Range(relationship_types)

\* get_related_quantums(quantum_id, relationship_types): the lists it may
\* return (ORDER BY qr.strength DESC, mq.relevance_score DESC).
GetRelatedQuantums(table, edges, quantum_id, relationship_types) ==
    LET joined == {pair \in (DOMAIN table) \X (DOMAIN edges) :
                      RelatedJoin(pair[1], edges[pair[2]], quantum_id,
                                  relationship_types)}
        StrengthOf == [pair \in joined |-> edges[pair[2]].strength]
        RelevanceOf == [pair \in joined |-> table[pair[1]].relevance_score]
    IN  { [i \in DOMAIN ordered |->
             [quantum_id |-> ordered[i][1],
              content_type |-> table[ordered[i][1]].content_type,
              relevance_score |-> table[ordered[i][1]].relevance_score,
              relationship_type |-> edges[ordered[i][2]].relationship_type,
              relationship_strength |-> edges[ordered[i][2]].strength]]
          : ordered \in OrderedRows(joined, StrengthOf, RelevanceOf) }

Related(quantum_id, relationship_types) ==
    /\ impl = "core"
    /\ \E related_quantums \in GetRelatedQuantums(memory_quantums,
                                  quantum_relationships, quantum_id,
                                  relationship_types) :
          lastOp' = [op |-> "related",
                     args |-> [quantum_id |-> quantum_id,
                               relationship_types |-> relationship_types],
                     ret |-> related_quantums]
    /\ UNCHANGED <<impl, threads, coreVars, issued_ids, completeVars>>

\* A faulty variant of LowRelevanceIds: the query without its condition on
\* access_count
LowRelevanceIdsAnyAccess(table, threshold) ==
    {id \in DOMAIN table : table[id].relevance_score < threshold}

\* SELECT id FROM memory_quantums WHERE relevance_score < ? AND access_count < 2
LowRelevanceIds(table, threshold) ==
    {id \in DOMAIN table :
        table[id].relevance_score < threshold /\ table[id].access_count < 2}

\* cleanup_low_relevance(threshold)
CleanupLowRelevance(threshold) ==
    LET low_relevance_ids == LowRelevanceIds(memory_quantums, threshold)
        kept_edges == {i \in DOMAIN quantum_relationships :
                          /\ quantum_relationships[i].source_quantum_id
                                \notin low_relevance_ids
                          /\ quantum_relationships[i].target_quantum_id
                                \notin low_relevance_ids}
    IN  /\ impl = "core"
        /\ memory_quantums' =
              [id \in DOMAIN memory_quantums \ low_relevance_ids |->
                  memory_quantums[id]]
        /\ quantum_relationships' =
              SelectSeqBy(quantum_relationships,
                          {quantum_relationships[i] : i \in kept_edges})
        /\ quantum_cache' = CacheRemove(quantum_cache, low_relevance_ids)
        /\ lastOp' = [op |-> "cleanup", args |-> [threshold |-> threshold],
                      ret |-> Cardinality(low_relevance_ids)]
        /\ UNCHANGED <<impl, threads, metrics, issued_ids, completeVars>>

\* get_memory_stats()
GetMemoryStats ==
    /\ impl = "core"
    /\ lastOp' = [op |-> "stats", args |-> <<>>,
                  ret |-> [total_quantums |-> metrics.total_quantums,
                           cached_quantums |-> Len(quantum_cache),
                           consolidations_performed |->
                               metrics.consolidations_performed]]
    /\ UNCHANGED <<impl, threads, coreVars, issued_ids, completeVars>>

\* A new process on the same db_path: __init__ runs _load_existing_quantums
\* (ORDER BY relevance_score DESC, last_accessed DESC LIMIT cache_limit).
Restart ==
    LET Relevance == [id \in DOMAIN memory_quantums |->
                         memory_quantums[id].relevance_score]
        LastAccessed == [id \in DOMAIN memory_quantums |->
                            memory_quantums[id].last_accessed]
        total_count == Cardinality(DOMAIN memory_quantums)
        cache_limit == Min(cache_load_limit, total_count)
    IN  /\ impl = "core"
        /\ \E ordered \in OrderedRows(DOMAIN memory_quantums, Relevance, LastAccessed) :
              quantum_cache' = [i \in 1..cache_limit |->
                                   RowToQuantum(memory_quantums, ordered[i])]
        /\ metrics' = [total_quantums |-> total_count,
                       consolidations_performed |-> 0]
        /\ lastOp' = [op |-> "init", args |-> <<>>, ret |-> <<>>]
        /\ UNCHANGED <<impl, threads, memory_quantums, quantum_relationships, issued_ids,
                       completeVars>>

---------------------------------------------------------------------------
(* MemoryQuantumCoreComplete: inputs *)

\* The (content, memory_type, context) a caller stores.  A context is the
\* sequence of its items in dict order; an item is a key with a text value
\* (text = TRUE) or with a number.
CompleteDocs ==
    { [content |-> <<"task", "finished", "with", "errors">>,
       memory_type |-> "experience", context |-> <<>>],
      [content |-> <<"task", "finished", "successfully">>,
       memory_type |-> "experience",
       context |-> <<[key |-> "source", text |-> TRUE, number |-> 0]>>],
      [content |-> <<>>, memory_type |-> "knowledge", context |-> <<>>] }

\* The calls of search_memory_quantums_complete: query, filters (a dict that
\* holds some of the keys memory_type, quantum_state, min_relevance), limit.
CompleteSearches ==
    { [query |-> <<"task", "finished", "successfully">>, filters |-> <<>>,
       limit |-> 2],
      [query |-> <<"task">>,
       filters |-> [memory_type |-> "experience", min_relevance |-> 500],
       limit |-> 1],
      [query |-> <<>>, filters |-> [quantum_state |-> "active"], limit |-> 2] }

\* The dicts _calculate_embedding_similarity is given: the empty dict, a
\* dict whose only weight is 0, dicts of one term and dicts of three terms.
EmbeddingInputs ==
    UNION { [K -> {500, 800}] : K \in {{}, {"err"}, {"task", "err", "log"}} }
       \cup { [key \in {"task"} |-> 0], [key \in {"cache"} |-> 800] }

\* The contents _extract_context_embeddings is given: 19 and 18 different
\* words, and a short text with a repeated word.
EmbeddingContents ==
    { <<"alpha", "bravo", "charlie", "delta", "echo", "foxtrot", "golf",
        "hotel", "india", "juliett", "kilo", "lima", "mike", "november",
        "oscar", "papa", "quebec", "romeo", "sierra">>,
      <<"alpha", "bravo", "charlie", "delta", "echo", "foxtrot", "golf",
        "hotel", "india", "juliett", "kilo", "lima", "mike", "november",
        "oscar", "papa", "quebec", "romeo">>,
      <<"task", "task", "err">>,
      <<>> }

\* The items of a context: a key with a text or with the number 50
ContextItems ==
    { [key |-> k, text |-> v[1], number |-> v[2]] :
         k \in {"user", "session", "priority"}, v \in {<<TRUE, 0>>, <<FALSE, 50>>} }

\* The contexts _extract_context_embeddings is given: dicts of at most two
\* items, in each order of insertion
EmbeddingContexts ==
    { c \in UNION { [1..n -> ContextItems] : n \in 0..2 } :
         \A i, j \in DOMAIN c : c[i].key = c[j].key => i = j }

---------------------------------------------------------------------------
(* MemoryQuantumCoreComplete: pure functions *)

\* memory_type.value[:4].upper()
TypePrefix(memory_type) ==
    CASE memory_type = "experience" -> "EXPE"
      [] memory_type = "knowledge" -> "KNOW"
      [] memory_type = "pattern" -> "PATT"
      [] memory_type = "skill" -> "SKIL"
      [] memory_type = "context" -> "CONT"
      [] memory_type = "emotional" -> "EMOT"
      [] memory_type = "procedural" -> "PROC"
      [] memory_type = "semantic" -> "SEMA"

\* _generate_quantum_id: f"QM_{type_prefix}_{timestamp}_{content_hash}", the
\* timestamp to the second; sha256(content)[:16] gets one label per content.
GenerateQuantumId(content, memory_type, now) ==
    [prefix |-> TypePrefix(memory_type), ts |-> now, hash |-> ContentHash(content)]

\* The words of `words` longer than 2 characters, each once, in the order
\* of their first occurrence (the keys of word_freq).
RECURSIVE FreqKeys(_, _)
FreqKeys(words, seen) ==
    IF words = <<>> THEN <<>>
    ELSE IF Len(Head(words)) > 2 /\ Head(words) \notin seen
         THEN <<Head(words)>> \o FreqKeys(Tail(words), seen \cup {Head(words)})
         ELSE FreqKeys(Tail(words), seen)

WordFreq(words, w) == Cardinality({i \in DOMAIN words : words[i] = w})

\* embeddings[key] = weight on a dict kept as the sequence of its items
EmbeddingPut(embeddings, key, weight) ==
    IF \E i \in DOMAIN embeddings : embeddings[i].key = key
    THEN [i \in DOMAIN embeddings |->
             IF embeddings[i].key = key
             THEN [key |-> key, weight |-> weight]
             ELSE embeddings[i]]
    ELSE Append(embeddings, [key |-> key, weight |-> weight])

\* for key, value in context.items(): embeddings[f"context_{key}"] = ...
RECURSIVE AddContext(_, _)
AddContext(embeddings, context) ==
    IF context = <<>> THEN embeddings
    ELSE LET item == Head(context)
             weight == IF item.text THEN Scale
                       ELSE Min(Scale, (IF item.number < 0 THEN -item.number
                                        ELSE item.number) * 10)
         IN  AddContext(EmbeddingPut(embeddings, "context_" \o item.key, weight),
                        Tail(context))

\* _extract_context_embeddings(content, context)
ExtractContextEmbeddings(content, context) ==
    LET keys == FreqKeys(content, {})
        max_freq == IF keys = <<>> THEN 1
                    ELSE CHOOSE m \in {WordFreq(content, keys[i]) : i \in DOMAIN keys} :
                            \A i \in DOMAIN keys : WordFreq(content, keys[i]) <= m
        word_embeddings == [i \in DOMAIN keys |->
                               [key |-> keys[i],
                                weight |-> (Scale * WordFreq(content, keys[i]))
                                              \div max_freq]]
        embeddings == AddContext(word_embeddings, context)
    IN  Take(SortDescStable([i \in DOMAIN embeddings |->
                                [key |-> embeddings[i].weight,
                                 item |-> embeddings[i]]]),
             embedding_limit)

\* The orders in which a set of keys can be iterated. The order of a set of
\* str depends on the hash seed of the process and on the order in which the
\* set was filled.
KeyOrders(S) == { s \in [1..Cardinality(S) -> S] : Range(s) = S }

\* The smallest power of ten q with x < q * 10 ^ SignificantDigits
RECURSIVE Ulp(_, _)
Ulp(x, q) == IF x < q * (10 ^ SignificantDigits) THEN q ELSE Ulp(x, q * 10)

\* A float result: x rounded to the precision of the float type
Fl(x) == LET q == Ulp(x, 1) IN ((x + q \div 2) \div q) * q

\* sum(values): the float additions from left to right, each one rounded
RECURSIVE FlSumFrom(_, _)
FlSumFrom(acc, values) ==
    IF values = <<>> THEN acc
    ELSE FlSumFrom(Fl(acc + Head(values)), Tail(values))

FlSum(values) == FlSumFrom(0, values)

\* The largest r in lo..hi with r * r <= n
RECURSIVE ISqrtIn(_, _, _)
ISqrtIn(n, lo, hi) ==
    IF lo >= hi THEN lo
    ELSE LET mid == (lo + hi + 1) \div 2
         IN  IF mid * mid <= n THEN ISqrtIn(n, mid, hi)
                               ELSE ISqrtIn(n, lo, mid - 1)

\* n ** 0.5; the weights are at most 1.0 and a dict holds at most
\* embedding_limit of them
ISqrt(n) == Fl(ISqrtIn(n, 0, Min(n, embedding_limit * Scale)))

\* sum(val**2 for val in embeddings.values()) ** 0.5; the values of one dict
\* are always read in the same order
EmbeddingNorm(embeddings) ==
    LET keys == CHOOSE s \in KeyOrders(DOMAIN embeddings) : TRUE
    IN  ISqrt(FlSum([i \in DOMAIN keys |->
                        Fl(embeddings[keys[i]] * embeddings[keys[i]])]))

\* _calculate_embedding_similarity(embeddings1, embeddings2), the two dicts
\* as functions from their keys to their weights, when the set common_keys is
\* iterated in the order key_order
CalculateEmbeddingSimilarity(embeddings1, embeddings2, key_order) ==
    LET common_keys == DOMAIN embeddings1 \cap DOMAIN embeddings2
        dot_product == FlSum([i \in DOMAIN key_order |->
                                 Fl(embeddings1[key_order[i]]
                                      * embeddings2[key_order[i]])])
        norm1 == EmbeddingNorm(embeddings1)
        norm2 == EmbeddingNorm(embeddings2)
    IN  IF DOMAIN embeddings1 = {} \/ DOMAIN embeddings2 = {} THEN 0
        ELSE IF common_keys = {} THEN 0
        ELSE IF norm1 = 0 \/ norm2 = 0 THEN 0
        ELSE Fl((Scale * dot_product) \div Fl(norm1 * norm2))

\* _find_related_quantums: the function uses the module `re`, which this
\* file imports only inside other functions; the NameError it raises at line
\* 643 is caught by the handler at line 672, which returns [].
FindRelatedQuantums(quantum) == <<>>

\* A faulty variant of ReinforcedRelevance: the product without min(1.0, .)
ReinforcedRelevanceUnbounded(relevance_score) == (relevance_score * 11) \div 10

\* quantum.relevance_score = min(1.0, quantum.relevance_score * 1.1)
ReinforcedRelevance(relevance_score) == Min(Scale, (relevance_score * 11) \div 10)

\* quantum_engine_config['state_transitions'] of _initialize_quantum_engine
state_transitions ==
    [active |-> {"reinforced", "fading", "dormant"},
     dormant |-> {"active", "fading"},
     reinforced |-> {"crystallized", "active"},
     fading |-> {"dormant", "volatile"},
     crystallized |-> {"reinforced"},
     volatile |-> {"fading", "active"}]

\* A faulty variant: the first threshold already crystallizes
ReinforcedStateSkipping(quantum_state, reinforcement_level) ==
    IF reinforcement_level > reinforced_after /\ quantum_state = "active"
    THEN "crystallized"
    ELSE IF reinforcement_level > crystallized_after /\ quantum_state = "reinforced"
         THEN "crystallized"
         ELSE quantum_state

\* The state transition of _reinforce_existing_quantum
ReinforcedState(quantum_state, reinforcement_level) ==
    IF reinforcement_level > reinforced_after /\ quantum_state = "active"
    THEN "reinforced"
    ELSE IF reinforcement_level > crystallized_after /\ quantum_state = "reinforced"
         THEN "crystallized"
         ELSE quantum_state

\* _calculate_content_match(query, content)
CalculateContentMatch(query, content) ==
    LET query_words == Range(query)
        content_words == Range(content)
    IN  IF IsSubstring(ContentString(query), ContentString(content)) THEN Scale
        ELSE IF query_words = {} THEN 0
        ELSE (Scale * Cardinality(query_words \cap content_words))
                \div Cardinality(query_words)

RECURSIVE SumWeights(_, _)
SumWeights(embeddings, query_keywords) ==
    IF embeddings = <<>> THEN [matches |-> 0, total_weight |-> 0]
    ELSE LET rest == SumWeights(Tail(embeddings), query_keywords)
             e == Head(embeddings).item
         IN  [matches |-> rest.matches
                          + (IF \E keyword \in query_keywords : IsSubstring(keyword, e.key)
                             THEN e.weight ELSE 0),
              total_weight |-> rest.total_weight + e.weight]

\* _calculate_context_match(query_keywords, context_embeddings)
CalculateContextMatch(query_keywords, context_embeddings) ==
    IF query_keywords = {} \/ context_embeddings = <<>> THEN 0
    ELSE LET sums == SumWeights(context_embeddings, query_keywords)
         IN  IF sums.total_weight = 0 THEN 0
             ELSE (Scale * sums.matches) \div sums.total_weight

\* total_score, times 10:
\* content_match * 0.4 + context_match * 0.3 + quantum.relevance_score * 0.3
TotalScore(query, quantum) ==
    4 * CalculateContentMatch(query, quantum.content)
    + 3 * CalculateContextMatch(Range(query), quantum.context_embeddings)
    + 3 * quantum.relevance_score

---------------------------------------------------------------------------
(* MemoryQuantumCoreComplete: operations *)

\* _save_quantum_to_database: INSERT OR REPLACE INTO memory_quantums, whose
\* PRIMARY KEY is quantum_id
SaveQuantumToDatabase(table, quantum) ==
    [id \in DOMAIN table \cup {quantum.quantum_id} |->
        IF id = quantum.quantum_id THEN quantum ELSE table[id]]

\* _reinforce_existing_quantum: the quantum after it
ReinforceExistingQuantum(quantum, now) ==
    [quantum EXCEPT
        !.access_count = @ + 1,
        !.last_access = now,
        !.reinforcement_level = @ + 1,
        !.quantum_state = ReinforcedState(@, quantum.reinforcement_level + 1),
        !.relevance_score = ReinforcedRelevance(@)]

\* The MemoryQuantum that store_memory_quantum_complete constructs
NewCompleteQuantum(quantum_id, content, memory_type, context, now) ==
    LET quantum == [quantum_id |-> quantum_id,
                    content |-> content,
                    memory_type |-> memory_type,
                    quantum_state |-> "active",
                    relevance_score |-> Scale,
                    access_count |-> 1,
                    creation_time |-> now,
                    last_access |-> now,
                    reinforcement_level |-> 1,
                    associated_quantums |-> <<>>,
                    context_embeddings |-> ExtractContextEmbeddings(content, context)]
    IN  [quantum EXCEPT !.associated_quantums = Take(FindRelatedQuantums(quantum), 10)]

\* store_memory_quantum_complete(content, memory_type, context)
StoreMemoryQuantumComplete(content, memory_type, context, now) ==
    LET quantum_id == GenerateQuantumId(content, memory_type, now)
        existing == quantum_id \in DOMAIN active_quantums
        quantum == IF existing
                   THEN ReinforceExistingQuantum(active_quantums[quantum_id], now)
                   ELSE NewCompleteQuantum(quantum_id, content, memory_type, context, now)
    IN  /\ impl = "complete"
        /\ cmemory_quantums' = SaveQuantumToDatabase(cmemory_quantums, quantum)
        /\ active_quantums' = SaveQuantumToDatabase(active_quantums, quantum)
        /\ performance_metrics' =
              IF existing THEN performance_metrics
              ELSE [performance_metrics EXCEPT !.total_quantums = @ + 1]
        /\ issued_ids' = issued_ids \cup {quantum_id}
        /\ lastOp' = [op |-> "store",
                      args |-> [content |-> content, memory_type |-> memory_type,
                                context |-> context],
                      created |-> ~existing,
                      ret |-> quantum_id]
        /\ UNCHANGED <<impl, threads, coreVars>>

\* The WHERE clause of search_memory_quantums_complete
CompleteRowMatches(row, filters, keywords) ==
    /\ "memory_type" \in DOMAIN filters => row.memory_type = filters.memory_type
    /\ "quantum_state" \in DOMAIN filters => row.quantum_state = filters.quantum_state
    /\ "min_relevance" \in DOMAIN filters => row.relevance_score >= filters.min_relevance
    /\ keywords # {} =>
          \E keyword \in keywords : IsSubstring(keyword, ContentString(row.content))

\* list(query_keywords)[:5]: five of the keywords, any five
KeywordChoices(query_keywords) ==
    { K \in SUBSET query_keywords :
        Cardinality(K) = Min(5, Cardinality(query_keywords)) }

\* MemorySearchResult(quantum, relevance_score=total_score, context_match, ...)
MemorySearchResult(query, quantum) ==
    [quantum |-> quantum,
     relevance_score |-> TotalScore(query, quantum),
     context_match |-> CalculateContextMatch(Range(query), quantum.context_embeddings)]

\* The results of the rows, in row order, that score above 0.1
RECURSIVE ScoreRows(_, _)
ScoreRows(query, rows) ==
    IF rows = <<>> THEN <<>>
    ELSE LET result == MemorySearchResult(query, Head(rows))
             rest == ScoreRows(query, Tail(rows))
         IN  IF result.relevance_score > 10 * min_total_score
             THEN <<result>> \o rest
             ELSE rest

\* results.sort(key=lambda x: x.relevance_score, reverse=True)
SortResults(results) ==
    LET keyed == [i \in DOMAIN results |->
                     [key |-> results[i].relevance_score, item |-> results[i]]]
        sorted == SortDescStable(keyed)
    IN  [i \in DOMAIN sorted |-> sorted[i].item]

\* search_memory_quantums_complete(query, filters, limit)
SearchMemoryQuantumsComplete(query, filters, limit) ==
    /\ impl = "complete"
    /\ \E keywords \in KeywordChoices(Range(query)) :
          LET matching == { cmemory_quantums[id] : id \in
                              { r \in DOMAIN cmemory_quantums :
                                  CompleteRowMatches(cmemory_quantums[r], filters,
                                                     keywords) } }
              relevance_key == [row \in matching |-> row.relevance_score]
              last_access_key == [row \in matching |-> row.last_access]
          IN  \E ordered \in OrderedRows(matching, relevance_key, last_access_key) :
                 LET rows == Take(ordered, limit * 2)
                     results == ScoreRows(query, rows)
                 IN  lastOp' = [op |-> "search",
                                args |-> [query |-> query, filters |-> filters,
                                          limit |-> limit],
                                ret |-> Take(SortResults(results), limit)]
    /\ UNCHANGED <<impl, threads, coreVars, completeVars, issued_ids>>

\* A call of _calculate_embedding_similarity(embeddings1, embeddings2)
EmbeddingSimilarity(embeddings1, embeddings2) ==
    /\ impl = "complete"
    /\ \E key_order \in KeyOrders(DOMAIN embeddings1 \cap DOMAIN embeddings2) :
          lastOp' = [op |-> "similarity",
                     args |-> [embeddings1 |-> embeddings1,
                               embeddings2 |-> embeddings2],
                     ret |-> CalculateEmbeddingSimilarity(embeddings1, embeddings2,
                                                          key_order)]
    /\ UNCHANGED <<impl, threads, coreVars, completeVars, issued_ids>>

\* A call of _extract_context_embeddings(content, context)
ExtractEmbeddings(content, context) ==
    /\ impl = "complete"
    /\ lastOp' = [op |-> "extract",
                  args |-> [content |-> content, context |-> context],
                  ret |-> ExtractContextEmbeddings(content, context)]
    /\ UNCHANGED <<impl, threads, coreVars, completeVars, issued_ids>>

---------------------------------------------------------------------------
(* Stores whose write to the table memory_quantums fails *)

\* The sqlite3 exception that a failed write raises, as the caller sees it
StorageError == [error |-> "StorageError"]

\* store_memory_quantum when _store_quantum_db raises: the exception leaves
\* the function before the cache and the counter are touched
StoreMemoryQuantumFails(content, content_type, tags, now) ==
    /\ impl = "core"
    /\ lastOp' = [op |-> "store",
                  args |-> [content |-> content, content_type |-> content_type,
                            tags |-> tags],
                  created |-> FALSE,
                  ret |-> StorageError]
    /\ UNCHANGED <<impl, threads, coreVars, completeVars, issued_ids>>

\* store_memory_quantum_complete when _save_quantum_to_database raises (the
\* connection rolls back): _reinforce_existing_quantum has already changed
\* the quantum in active_quantums, and the except branch calls
\* _update_performance_metrics('store', execution_time, False) and re-raises
StoreMemoryQuantumCompleteFails(content, memory_type, context, now) ==
    LET quantum_id == GenerateQuantumId(content, memory_type, now)
        existing == quantum_id \in DOMAIN active_quantums
    IN  /\ impl = "complete"
        /\ active_quantums' =
              IF existing
              THEN [active_quantums EXCEPT
                       ![quantum_id] = ReinforceExistingQuantum(@, now)]
              ELSE active_quantums
        /\ performance_metrics' =
              [performance_metrics EXCEPT !.total_quantums = @ + 1]
        /\ lastOp' = [op |-> "store",
                      args |-> [content |-> content, memory_type |-> memory_type,
                                context |-> context],
                      created |-> FALSE,
                      ret |-> StorageError]
        /\ UNCHANGED <<impl, threads, coreVars, cmemory_quantums, issued_ids>>

---------------------------------------------------------------------------
(* Calls from several threads on one instance.  Neither class takes a lock   *)
(* (self.db_lock of the complete class is never acquired), so a thread can   *)
(* be pre-empted between any two statements of a call.                       *)

\* The threads that call the store
Threads == {"A", "B"}

\* A thread that is in no call
Idle == [pc |-> "idle", quantum_id |-> <<>>, args |-> <<>>, row |-> <<>>]

\* _record_access, first half: the record in quantum_cache is updated
RecordAccessCacheUpdate(t, quantum_id, now) ==
    /\ impl = "core"
    /\ threads[t].pc = "idle"
    /\ quantum_id \in CacheIds(quantum_cache)
    /\ quantum_cache' = RecordAccessCache(quantum_cache, {quantum_id}, now)
    /\ threads' = [threads EXCEPT ![t] = [pc |-> "update",
                                          quantum_id |-> quantum_id,
                                          args |-> <<>>, row |-> <<>>]]
    /\ UNCHANGED <<impl, memory_quantums, quantum_relationships, metrics,
                   completeVars, issued_ids, lastOp>>

\* _record_access, second half: UPDATE memory_quantums ... and commit
RecordAccessCommit(t, now) ==
    /\ impl = "core"
    /\ threads[t].pc = "update"
    /\ memory_quantums' = RecordAccessDb(memory_quantums, {threads[t].quantum_id}, now)
    /\ threads' = [threads EXCEPT ![t] = Idle]
    /\ lastOp' = [op |-> "record_access",
                  args |-> [quantum_id |-> threads[t].quantum_id],
                  ret |-> <<>>]
    /\ UNCHANGED <<impl, quantum_cache, quantum_relationships, metrics,
                   completeVars, issued_ids>>

\* store_memory_quantum_complete of an id in active_quantums, first part:
\* _reinforce_existing_quantum changes the quantum in memory
ReinforceInMemory(t, content, memory_type, context, now) ==
    LET quantum_id == GenerateQuantumId(content, memory_type, now)
    IN  /\ impl = "complete"
        /\ threads[t].pc = "idle"
        /\ quantum_id \in DOMAIN active_quantums
        /\ active_quantums' = [active_quantums EXCEPT
                                  ![quantum_id] = ReinforceExistingQuantum(@, now)]
        /\ threads' = [threads EXCEPT
                          ![t] = [pc |-> "bind", quantum_id |-> quantum_id,
                                  args |-> [content |-> content,
                                            memory_type |-> memory_type,
                                            context |-> context],
                                  row |-> <<>>]]
        /\ UNCHANGED <<impl, coreVars, cmemory_quantums, performance_metrics,
                       issued_ids, lastOp>>

\* second part: _save_quantum_to_database evaluates the parameters of its
\* INSERT OR REPLACE from the quantum in memory
ReinforceBind(t) ==
    /\ impl = "complete"
    /\ threads[t].pc = "bind"
    /\ threads' = [threads EXCEPT
                      ![t].pc = "write",
                      ![t].row = active_quantums[threads[t].quantum_id]]
    /\ UNCHANGED <<impl, coreVars, completeVars, issued_ids, lastOp>>

\* third part: the INSERT OR REPLACE is executed and committed
ReinforceWrite(t) ==
    /\ impl = "complete"
    /\ threads[t].pc = "write"
    /\ cmemory_quantums' = SaveQuantumToDatabase(cmemory_quantums, threads[t].row)
    /\ threads' = [threads EXCEPT ![t] = Idle]
    /\ lastOp' = [op |-> "store", args |-> threads[t].args, created |-> FALSE,
                  ret |-> threads[t].quantum_id]
    /\ UNCHANGED <<impl, coreVars, active_quantums, performance_metrics, issued_ids>>

---------------------------------------------------------------------------
(* A consolidation pass and a cleanup in which a statement on the database   *)
(* raises.  Neither function has a try block.                                *)

\* quantums_by_score[self.max_memory_size:] of _consolidate_memory
QuantumsToRemove(cache, now) ==
    LET keyed == [i \in DOMAIN cache |->
                     [key |-> ConsolidationScore(cache[i], now),
                      quantum |-> cache[i]]]
        quantums_by_score == SortDescStable(keyed)
    IN  SubSeq(quantums_by_score, max_memory_size + 1, Len(quantums_by_score))

\* The positions in quantums_to_remove of the records the pass evicts
EvictedPositions(quantums_to_remove) ==
    {k \in DOMAIN quantums_to_remove :
        quantums_to_remove[k].quantum.relevance_score < relevance_threshold}

\* _consolidate_memory when _update_quantum_relevance raises for the record at
\* position k: the records before it are done, the record itself has left
\* the cache (the del comes first), the loop and the function are left by
\* the exception and consolidations_performed is not incremented
ConsolidateMemoryFails(cache, table, mtr, now, k) ==
    LET quantums_to_remove == QuantumsToRemove(cache, now)
        done == SubSeq(quantums_to_remove, 1, k - 1)
        evicted == {quantums_to_remove[i].quantum.id :
                       i \in {j \in EvictedPositions(quantums_to_remove) : j <= k}}
    IN  [cache |-> CacheRemove(cache, evicted),
         table |-> DecayEvicted(table, done),
         metrics |-> mtr]

\* store_memory_quantum whose consolidation pass raises: the record is
\* stored and counted, and the exception of the pass leaves the store
StoreMemoryQuantumPassFails(content, content_type, tags, now) ==
    LET quantum == NewQuantum(content, content_type, tags, now)
        table1 == StoreQuantumDb(memory_quantums, quantum)
        cache1 == CachePut(quantum_cache, quantum)
        metrics1 == [metrics EXCEPT !.total_quantums = @ + 1]
    IN  /\ impl = "core"
        /\ Len(cache1) > consolidation_interval
        /\ Len(cache1) > max_memory_size
        /\ \E k \in EvictedPositions(QuantumsToRemove(cache1, now)) :
              LET after == ConsolidateMemoryFails(cache1, table1, metrics1, now, k)
              IN  /\ memory_quantums' = after.table
                  /\ quantum_cache' = after.cache
                  /\ metrics' = after.metrics
        /\ issued_ids' = issued_ids \cup {quantum.id}
        /\ lastOp' = [op |-> "store",
                      args |-> [content |-> content, content_type |-> content_type,
                                tags |-> tags],
                      created |-> TRUE,
                      ret |-> StorageError]
        /\ UNCHANGED <<impl, threads, quantum_relationships, completeVars>>

\* cleanup_low_relevance(threshold) when one of its DELETE statements raises:
\* nothing is committed, the cache is not reached
CleanupLowRelevanceFails(threshold) ==
    /\ impl = "core"
    /\ LowRelevanceIds(memory_quantums, threshold) # {}
    /\ lastOp' = [op |-> "cleanup", args |-> [threshold |-> threshold],
                  raised |-> TRUE,
                  ret |-> StorageError]
    /\ UNCHANGED <<impl, threads, coreVars, completeVars, issued_ids>>

---------------------------------------------------------------------------
(* Specification *)

Init ==
    /\ impl \in {"core", "complete"}
    /\ memory_quantums = <<>>
    /\ quantum_cache = <<>>
    /\ quantum_relationships = <<>>
    /\ metrics = [total_quantums |-> 0, consolidations_performed |-> 0]
    /\ cmemory_quantums = <<>>
    /\ active_quantums = <<>>
    /\ performance_metrics = [total_quantums |-> 0]
    /\ issued_ids = {}
    /\ threads = [t \in Threads |-> Idle]
    /\ lastOp = [op |-> "init", args |-> <<>>, ret |-> <<>>]

\* The ids a caller can name: those of the rows, and one that is unknown.
\* A link starts at a row and may end at any of them.
KnownIds == DOMAIN memory_quantums \cup {UnknownId}

CoreNext ==
    \/ \E doc \in CoreDocs, now \in Times :
          /\ metrics.total_quantums < MaxRecords
          /\ StoreMemoryQuantum(doc.content, doc.content_type, doc.tags, now)
    \/ \E call \in CoreSearches, now \in Times :
          /\ \A i \in DOMAIN quantum_cache : quantum_cache[i].access_count < MaxAccess
          /\ SearchMemoryQuantums(call.query, call.content_type, call.limit,
                                  call.relevance_threshold, now)
    \/ \E now \in Times :
          /\ metrics.consolidations_performed < MaxConsolidations
          /\ Consolidate(now)
    \/ \E threshold \in CleanupThresholds : CleanupLowRelevance(threshold)
    \/ GetMemoryStats
    \/ Restart

GraphNext ==
    \/ \E doc \in CoreDocs :
          /\ metrics.total_quantums < MaxRecords
          /\ StoreMemoryQuantum(doc.content, doc.content_type, doc.tags, 1)
    \/ \E source_id \in DOMAIN memory_quantums, target_id \in KnownIds,
          relationship_type \in RelationshipTypes, strength \in Strengths :
          /\ Len(quantum_relationships) < MaxEdges
          /\ CreateQuantumRelationship(source_id, target_id, relationship_type, strength)
    \/ \E quantum_id \in KnownIds, relationship_types \in {<<>>, <<"related">>} :
          Related(quantum_id, relationship_types)
    \/ \E threshold \in CleanupThresholds : CleanupLowRelevance(threshold)

CompleteNext ==
    \/ \E doc \in CompleteDocs, now \in Times :
          /\ performance_metrics.total_quantums < MaxRecords
             \/ GenerateQuantumId(doc.content, doc.memory_type, now)
                   \in DOMAIN active_quantums
          /\ \A id \in DOMAIN active_quantums :
                active_quantums[id].access_count < MaxReinforcement
          /\ StoreMemoryQuantumComplete(doc.content, doc.memory_type, doc.context, now)
    \/ \E call \in CompleteSearches :
          SearchMemoryQuantumsComplete(call.query, call.filters, call.limit)

\* The core with a working set that can outgrow max_memory_size.
ConsolidateNext ==
    \/ \E doc \in CoreDocs, now \in Times :
          /\ metrics.total_quantums < MaxCacheRecords
          /\ StoreMemoryQuantum(doc.content, doc.content_type, doc.tags, now)
    \/ \E now \in Times :
          /\ metrics.consolidations_performed < MaxConsolidations
          /\ Consolidate(now)
    \/ Restart

SimilarityNext ==
    \E embeddings1 \in EmbeddingInputs, embeddings2 \in EmbeddingInputs :
       EmbeddingSimilarity(embeddings1, embeddings2)

Next == CoreNext \/ CompleteNext

Spec == Init /\ [][Next]_vars

InitGraph == Init /\ impl = "core"

SpecGraph == InitGraph /\ [][GraphNext]_vars

InitConsolidate == Init /\ impl = "core"

\* The relevance_score of a row of a database file that exists before the
\* instance is constructed
DecayRelevances == {250, 600}

\* An instance constructed on a database file that holds one row:
\* _load_existing_quantums has put it in quantum_cache
InitDecay ==
    /\ impl = "core"
    /\ \E doc \in CoreDocs, relevance_score \in DecayRelevances :
          LET quantum == [NewQuantum(doc.content, doc.content_type, doc.tags, 1)
                             EXCEPT !.relevance_score = relevance_score]
          IN  /\ memory_quantums = StoreQuantumDb(<<>>, quantum)
              /\ quantum_cache = <<quantum>>
              /\ issued_ids = {quantum.id}
    /\ quantum_relationships = <<>>
    /\ metrics = [total_quantums |-> 1, consolidations_performed |-> 0]
    /\ cmemory_quantums = <<>>
    /\ active_quantums = <<>>
    /\ performance_metrics = [total_quantums |-> 0]
    /\ threads = [t \in Threads |-> Idle]
    /\ lastOp = [op |-> "init", args |-> <<>>, ret |-> <<>>]

SpecDecay == InitDecay /\ [][ConsolidateNext]_vars

\* The core on a database file that holds a row, with statements that can fail
BatchFailureNext ==
    \/ \E doc \in CoreDocs, now \in Times :
          /\ metrics.total_quantums < MaxCacheRecords
          /\ StoreMemoryQuantum(doc.content, doc.content_type, doc.tags, now)
    \/ \E doc \in CoreDocs, now \in Times :
          /\ metrics.total_quantums < MaxCacheRecords
          /\ StoreMemoryQuantumPassFails(doc.content, doc.content_type, doc.tags, now)
    \/ \E threshold \in CleanupThresholds : CleanupLowRelevance(threshold)
    \/ \E threshold \in CleanupThresholds : CleanupLowRelevanceFails(threshold)

SpecBatchFailure == InitDecay /\ [][BatchFailureNext]_vars

\* Two threads on one instance.  The stores that create a record are taken
\* while no call is in progress.
ConcurrentNext ==
    \/ \E doc \in CoreDocs, now \in Times :
          /\ metrics.total_quantums < MaxRecords
          /\ \A t \in Threads : threads[t].pc = "idle"
          /\ StoreMemoryQuantum(doc.content, doc.content_type, doc.tags, now)
    \/ \E t \in Threads, quantum_id \in DOMAIN memory_quantums, now \in Times :
          /\ \A i \in DOMAIN quantum_cache :
                quantum_cache[i].access_count < MaxReinforcement
          /\ RecordAccessCacheUpdate(t, quantum_id, now)
    \/ \E t \in Threads, now \in Times : RecordAccessCommit(t, now)
    \/ \E doc \in CompleteDocs, now \in Times :
          /\ performance_metrics.total_quantums < MaxRecords
          /\ GenerateQuantumId(doc.content, doc.memory_type, now)
                \notin DOMAIN active_quantums
          /\ \A t \in Threads : threads[t].pc = "idle"
          /\ StoreMemoryQuantumComplete(doc.content, doc.memory_type, doc.context, now)
    \/ \E t \in Threads, doc \in CompleteDocs, now \in Times :
          /\ \A id \in DOMAIN active_quantums :
                active_quantums[id].access_count < MaxReinforcement
          /\ ReinforceInMemory(t, doc.content, doc.memory_type, doc.context, now)
    \/ \E t \in Threads : ReinforceBind(t)
    \/ \E t \in Threads : ReinforceWrite(t)

SpecConcurrent == Init /\ [][ConcurrentNext]_vars

FailureNext ==
    \/ \E doc \in CoreDocs, now \in Times :
          /\ metrics.total_quantums < MaxRecords
          /\ StoreMemoryQuantum(doc.content, doc.content_type, doc.tags, now)
    \/ \E doc \in CoreDocs, now \in Times :
          StoreMemoryQuantumFails(doc.content, doc.content_type, doc.tags, now)
    \/ \E doc \in CompleteDocs, now \in Times :
          /\ performance_metrics.total_quantums < MaxRecords
             \/ GenerateQuantumId(doc.content, doc.memory_type, now)
                   \in DOMAIN active_quantums
          /\ \A id \in DOMAIN active_quantums :
                active_quantums[id].access_count < MaxReinforcement
          /\ StoreMemoryQuantumComplete(doc.content, doc.memory_type, doc.context, now)
    \/ \E doc \in CompleteDocs, now \in Times :
          /\ performance_metrics.total_quantums < MaxRecords
          /\ \A id \in DOMAIN active_quantums :
                active_quantums[id].access_count < MaxReinforcement
          /\ StoreMemoryQuantumCompleteFails(doc.content, doc.memory_type,
                                             doc.context, now)

SpecFailure == Init /\ [][FailureNext]_vars

EmbeddingsNext ==
    \E content \in EmbeddingContents, context \in EmbeddingContexts :
       ExtractEmbeddings(content, context)

InitEmbeddings == Init /\ impl = "complete"

SpecEmbeddings == InitEmbeddings /\ [][EmbeddingsNext]_vars

InitSimilarity == Init /\ impl = "complete"

SpecSimilarity == InitSimilarity /\ [][SimilarityNext]_vars

SpecConsolidate == InitConsolidate /\ [][ConsolidateNext]_vars

---------------------------------------------------------------------------
(* Properties *)

\* The persistent table of the implementation that runs.
Table == IF impl = "core" THEN memory_quantums ELSE cmemory_quantums

\* The working set of the implementation that runs, by id.
WorkingSet ==
    IF impl = "core"
    THEN [id \in CacheIds(quantum_cache) |-> CacheGet(quantum_cache, id)]
    ELSE active_quantums

\* The type a row carries: content_type in the core, memory_type in the
\* complete class.
TypeOf(row) == IF impl = "core" THEN row.content_type ELSE row.memory_type

\* The type a store call was given.
StoredType(args) == IF impl = "core" THEN args.content_type ELSE args.memory_type

AllRelevanceScores ==
    {Table[id].relevance_score : id \in DOMAIN Table}
    \cup {WorkingSet[id].relevance_score : id \in DOMAIN WorkingSet}

\* C1: in every reachable state every record, in the working set and in the
\* persistent table, has 0 <= relevance_score <= 1.
C1_ScoreBounds == \A score \in AllRelevanceScores : 0 <= score /\ score <= Scale

\* A reinforcement has just multiplied a relevance_score that was already 1.0.
C1_Witness ==
    /\ lastOp.op = "store"
    /\ ~lastOp.created
    /\ WorkingSet[lastOp.ret].relevance_score = Scale
    /\ Table[lastOp.ret].relevance_score = Scale

\* The ids of the rows that hold this content with this type.
SameDocIds(content, type) ==
    {id \in DOMAIN Table : Table[id].content = content /\ TypeOf(Table[id]) = type}

\* C2: a store of a (content, content_type) that a persisted record already
\* holds leaves the number of persisted records as it was, raises the
\* existing record's access_count by 1 and does not lower its relevance_score.
C2_IdempotentStore ==
    [][(/\ lastOp'.op = "store"
        /\ SameDocIds(lastOp'.args.content, StoredType(lastOp'.args)) # {})
       => /\ Cardinality(DOMAIN Table') = Cardinality(DOMAIN Table)
          /\ \E id \in SameDocIds(lastOp'.args.content, StoredType(lastOp'.args)) :
                /\ id \in DOMAIN Table'
                /\ Table'[id].access_count = Table[id].access_count + 1
                /\ Table'[id].relevance_score >= Table[id].relevance_score]_vars

\* C3: a store that creates a new record never gives it an id that an
\* existing or a deleted record had.
C3_IdsNeverReused ==
    [][(lastOp'.op = "store" /\ lastOp'.created) => lastOp'.ret \notin issued_ids]_vars

\* What a store that rejects its input would return in place of an id.
ValidationError == [error |-> "ValidationError"]

\* C4: a store of empty content fails with a ValidationError: the persistent
\* table and the working set stay as they were and no id is returned.
C4_EmptyContentRejected ==
    [][(lastOp'.op = "store" /\ lastOp'.args.content = <<>>)
       => /\ lastOp'.ret = ValidationError
          /\ Table' = Table
          /\ WorkingSet' = WorkingSet]_vars

\* The rows cleanup_low_relevance(threshold) is to delete.
Doomed(threshold) ==
    {id \in DOMAIN memory_quantums :
        /\ memory_quantums[id].relevance_score < threshold
        /\ memory_quantums[id].access_count < 2}

\* C5: cleanup_low_relevance(threshold) deletes exactly the rows with
\* relevance_score < threshold and access_count < 2, keeps every other row as
\* it was, removes the deleted records from the working set and returns the
\* number of rows deleted.
C5_CleanupExact ==
    [][lastOp'.op = "cleanup"
       => /\ DOMAIN memory_quantums' =
                DOMAIN memory_quantums \ Doomed(lastOp'.args.threshold)
          /\ \A id \in DOMAIN memory_quantums' :
                memory_quantums'[id] = memory_quantums[id]
          /\ CacheIds(quantum_cache') =
                CacheIds(quantum_cache) \ Doomed(lastOp'.args.threshold)
          /\ lastOp'.ret = Cardinality(Doomed(lastOp'.args.threshold))]_vars

\* A cleanup has deleted one row and kept a row whose relevance_score is
\* below the threshold and whose access_count is 2 or more.
C5_Witness ==
    /\ lastOp.op = "cleanup"
    /\ lastOp.ret = 1
    /\ \E id \in DOMAIN memory_quantums :
          /\ memory_quantums[id].relevance_score < lastOp.args.threshold
          /\ memory_quantums[id].access_count >= 2
          /\ id \in CacheIds(quantum_cache)

\* The total score a search gave a result: the key of the sort of the core,
\* relevance * 0.6 + similarity * 0.4, and the total_score of the complete
\* class.
ResultScore(result) ==
    IF impl = "core" THEN CombinedScore(result) ELSE result.relevance_score

\* The id of the record a result is about.
ResultId(result) ==
    IF impl = "core" THEN result.quantum_id ELSE result.quantum.quantum_id

\* C6: the list a search returns is sorted by non-increasing total score over
\* the whole list, whether a result came from the working set or from the
\* persistent table.
C6_SearchSorted ==
    lastOp.op = "search" =>
       \A i \in DOMAIN lastOp.ret, j \in DOMAIN lastOp.ret :
          i < j => ResultScore(lastOp.ret[i]) >= ResultScore(lastOp.ret[j])

\* C7: a search raises the access_count of every record it returns by
\* exactly 1, in the persistent table and in the working set.
C7_AccessCountedOnce ==
    [][lastOp'.op = "search"
       => \A i \in DOMAIN lastOp'.ret :
             LET id == ResultId(lastOp'.ret[i])
             IN  /\ Table'[id].access_count = Table[id].access_count + 1
                 /\ id \in DOMAIN WorkingSet =>
                       WorkingSet'[id].access_count
                          = WorkingSet[id].access_count + 1]_vars

\* The filters of a search hold for a result: the type, the state and the
\* minimum relevance, each when the call supplies it.
SatisfiesFilters(args, result) ==
    IF impl = "core"
    THEN /\ args.content_type # "" => result.content_type = args.content_type
         /\ args.relevance_threshold # 0 =>
               result.relevance_score >= args.relevance_threshold
    ELSE /\ "memory_type" \in DOMAIN args.filters =>
               result.quantum.memory_type = args.filters.memory_type
         /\ "quantum_state" \in DOMAIN args.filters =>
               result.quantum.quantum_state = args.filters.quantum_state
         /\ "min_relevance" \in DOMAIN args.filters =>
               result.quantum.relevance_score >= args.filters.min_relevance

\* C8: every record a search returns satisfies all the filters of the call:
\* its type is the requested type, its state the requested state and its
\* relevance_score at least the requested minimum.
C8_ResultsSatisfyFilters ==
    lastOp.op = "search" =>
       \A i \in DOMAIN lastOp.ret : SatisfiesFilters(lastOp.args, lastOp.ret[i])

\* Some list related(quantum_id) may return lacks an entry for `other` with
\* this relationship type.
MayMiss(quantum_id, other, relationship_type) ==
    \E related_quantums \in GetRelatedQuantums(memory_quantums,
                               quantum_relationships, quantum_id, <<>>) :
       \A i \in DOMAIN related_quantums :
          ~(/\ related_quantums[i].quantum_id = other
            /\ related_quantums[i].relationship_type = relationship_type)

\* C9: once link(idA, idB, type, strength) has added its edge between two
\* existing records, related(idA) lists idB with that relationship type and
\* related(idB) lists idA.
C9_LinkThenRelated ==
    \A i \in DOMAIN quantum_relationships :
       LET edge == quantum_relationships[i]
       IN  (/\ edge.source_quantum_id \in DOMAIN memory_quantums
            /\ edge.target_quantum_id \in DOMAIN memory_quantums)
           => /\ ~MayMiss(edge.source_quantum_id, edge.target_quantum_id,
                          edge.relationship_type)
              /\ ~MayMiss(edge.target_quantum_id, edge.source_quantum_id,
                          edge.relationship_type)

\* related(idB) has returned idA after link(idA, idB, type, strength), the
\* two being different records.
C9_Witness ==
    /\ lastOp.op = "related"
    /\ \E i \in DOMAIN quantum_relationships, k \in DOMAIN lastOp.ret :
          /\ quantum_relationships[i].target_quantum_id = lastOp.args.quantum_id
          /\ quantum_relationships[i].source_quantum_id # lastOp.args.quantum_id
          /\ lastOp.ret[k].quantum_id = quantum_relationships[i].source_quantum_id
          /\ lastOp.ret[k].relationship_type
                = quantum_relationships[i].relationship_type

\* C10: the edge table holds at most one edge per (source, target, type).
C10_LinkIsUpsert ==
    \A i \in DOMAIN quantum_relationships, j \in DOMAIN quantum_relationships :
       (/\ quantum_relationships[i].source_quantum_id
              = quantum_relationships[j].source_quantum_id
        /\ quantum_relationships[i].target_quantum_id
              = quantum_relationships[j].target_quantum_id
        /\ quantum_relationships[i].relationship_type
              = quantum_relationships[j].relationship_type)
       => i = j

\* C11: no record's relationships list (associated_ids) holds the record's
\* own id, in the working set or in the persistent table.
C11_NoSelfAssociation ==
    /\ \A i \in DOMAIN quantum_cache :
          quantum_cache[i].id \notin Range(quantum_cache[i].relationships)
    /\ \A id \in DOMAIN memory_quantums :
          id \notin Range(memory_quantums[id].relationships)
    /\ \A id \in DOMAIN active_quantums :
          id \notin Range(active_quantums[id].associated_quantums)

\* C12: no step lowers the access_count of a record that exists before and
\* after it, in the persistent table or in the working set.
C12_AccessCountMonotone ==
    [][/\ \A id \in DOMAIN Table \cap DOMAIN Table' :
             Table'[id].access_count >= Table[id].access_count
       /\ \A id \in DOMAIN WorkingSet \cap DOMAIN WorkingSet' :
             WorkingSet'[id].access_count >= WorkingSet[id].access_count]_vars

\* C13: after consolidate() the working set holds at most max_memory_size
\* records.
C13_ConsolidateBoundsCache ==
    [][lastOp'.op = "consolidate" => Len(quantum_cache') <= max_memory_size]_vars

\* C14: cleanup_low_relevance is the only operation that removes rows from
\* the persistent table: every other step keeps every persisted id.
C14_OnlyCleanupDeletes ==
    [][lastOp'.op # "cleanup" => DOMAIN Table \subseteq DOMAIN Table']_vars

\* A store has added a row to a table that already held a row with the same
\* content, and both rows are there.
C14_Witness ==
    /\ lastOp.op = "store"
    /\ \E id \in DOMAIN Table :
          /\ id # lastOp.ret
          /\ Table[id].content = lastOp.args.content

\* C15: the embedding similarity is symmetric: a call similarity(B, A) that
\* follows a call similarity(A, B) returns the same value; and the similarity
\* is 0 when either mapping is empty or the two share no term.
C15_SimilaritySymmetric ==
    [][lastOp'.op = "similarity" =>
          LET A == lastOp'.args.embeddings1
              B == lastOp'.args.embeddings2
          IN  /\ (DOMAIN A = {} \/ DOMAIN B = {} \/ DOMAIN A \cap DOMAIN B = {})
                    => lastOp'.ret = 0
              /\ (/\ lastOp.op = "similarity"
                  /\ lastOp.args.embeddings1 = B
                  /\ lastOp.args.embeddings2 = A
                  /\ A # B)
                    => lastOp'.ret = lastOp.ret]_vars

\* The term-to-weight mapping that _extract_context_embeddings returned
EmbeddingMapping(ret) == { ret[i].item : i \in DOMAIN ret }

\* C16: extract_embeddings is deterministic and free of side effects: a call
\* that follows a call with the same content and the same context (the same
\* keys with the same values) returns the same term-to-weight mapping, the
\* terms that survive the cut to embedding_limit included, and no call
\* changes the state of the store.
C16_ExtractDeterministic ==
    [][lastOp'.op = "extract" =>
          /\ UNCHANGED <<coreVars, completeVars>>
          /\ (/\ lastOp.op = "extract"
              /\ lastOp'.args.content = lastOp.args.content
              /\ Range(lastOp'.args.context) = Range(lastOp.args.context))
                => EmbeddingMapping(lastOp'.ret) = EmbeddingMapping(lastOp.ret)]_vars

\* The tags a store call was given; the complete class takes none.
StoredTags(args) == IF impl = "core" THEN args.tags ELSE <<>>

\* C17: the relevance_score of a newly stored record is
\* min(1, (0.5 + min(len(content)/1000, 0.2) + min(0.05*|tags|, 0.15))
\*          * weight(content_type)).
C17_InitialRelevanceFormula ==
    [][(lastOp'.op = "store" /\ lastOp'.created)
       => /\ lastOp'.ret \in DOMAIN Table'
          /\ Table'[lastOp'.ret].relevance_score =
                Min(Scale,
                    ((500 + Min(Len(ContentString(lastOp'.args.content)), 200)
                          + Min(50 * Len(StoredTags(lastOp'.args)), 150))
                        * TypeMultiplier10(StoredType(lastOp'.args))) \div 10)]_vars

\* The same for the stores of MemoryQuantumCore alone.
C17_InitialRelevanceFormulaCore ==
    [][(impl = "core" /\ lastOp'.op = "store" /\ lastOp'.created)
       => /\ lastOp'.ret \in DOMAIN Table'
          /\ Table'[lastOp'.ret].relevance_score =
                CalculateInitialRelevance(lastOp'.args.content,
                                          lastOp'.args.content_type,
                                          lastOp'.args.tags)]_vars

\* What a link that rejects an unknown id would return.
NotFoundError == [error |-> "NotFoundError"]

\* C18: a link whose source_id or target_id refers to no existing record
\* returns a NotFoundError and creates no edge: the edge table and the
\* relationships list of every record are as they were.
C18_LinkUnknownIdRejected ==
    [][(/\ lastOp'.op = "link"
        /\ \/ lastOp'.args.source_id \notin DOMAIN memory_quantums
           \/ lastOp'.args.target_id \notin DOMAIN memory_quantums)
       => /\ lastOp'.ret = NotFoundError
          /\ UNCHANGED <<quantum_relationships, quantum_cache, memory_quantums>>]_vars

\* The total-record counter of the implementation that runs.
TotalQuantums ==
    IF impl = "core" THEN metrics.total_quantums
    ELSE performance_metrics.total_quantums

\* C19: a store whose write to the persistent table fails leaves no partial
\* effect: the working set and the table are as they were (the record is not
\* added to the working set) and the total-record counter is not incremented.
C19_FailedStoreNoEffect ==
    [][(lastOp'.op = "store" /\ lastOp'.ret = StorageError)
       => /\ WorkingSet' = WorkingSet
          /\ Table' = Table
          /\ TotalQuantums' = TotalQuantums]_vars

\* The same for the stores of MemoryQuantumCore alone.
C19_FailedStoreNoEffectCore ==
    [][(impl = "core" /\ lastOp'.op = "store" /\ lastOp'.ret = StorageError)
       => /\ UNCHANGED <<quantum_cache, memory_quantums>>
          /\ metrics'.total_quantums = metrics.total_quantums]_vars

\* C20: concurrent calls on one store instance do not interleave partial
\* updates to the same record: in every state a caller can observe, each
\* record of the working set has the access_count of its persisted row (no
\* record is updated in the working set but not in the table, and no
\* increment of access_count is lost in one of the two).
C20_RecordUpdateIndivisible ==
    \A id \in DOMAIN WorkingSet \cap DOMAIN Table :
       WorkingSet[id].access_count = Table[id].access_count

\* The same while no call is in progress: an increment that one of the two
\* has lost stays lost.
C20_NoLostIncrement ==
    (\A t \in Threads : threads[t].pc = "idle") => C20_RecordUpdateIndivisible

\* The step ran a consolidation pass over a working set above max_memory_size.
RanConsolidationPass ==
    metrics'.consolidations_performed = metrics.consolidations_performed + 1

\* C21: a consolidation pass (on demand, or the one a store runs) persists
\* relevance_score * 0.8 for exactly the records it evicts from the working
\* set, which are records whose relevance_score is below relevance_threshold,
\* and leaves the persisted relevance_score of every other record as it was.
C21_DecayExactlyEvicted ==
    [][(RanConsolidationPass /\ lastOp'.op \in {"store", "consolidate"})
       => \A id \in DOMAIN memory_quantums :
             (lastOp'.op = "store" => id # lastOp'.ret)
             => IF id \in CacheIds(quantum_cache) /\ id \notin CacheIds(quantum_cache')
                THEN /\ CacheGet(quantum_cache, id).relevance_score < relevance_threshold
                     /\ memory_quantums'[id].relevance_score =
                           (CacheGet(quantum_cache, id).relevance_score * 8) \div 10
                ELSE memory_quantums'[id].relevance_score =
                        memory_quantums[id].relevance_score]_vars

\* A pass has evicted a record and persisted its decayed score (0.25 * 0.8),
\* and two records have stayed in the working set.
C21_Witness ==
    /\ metrics.consolidations_performed >= 1
    /\ Len(quantum_cache) = max_memory_size
    /\ \E id \in DOMAIN memory_quantums :
          /\ id \notin CacheIds(quantum_cache)
          /\ memory_quantums[id].relevance_score = 200

\* C22: a store runs a consolidation pass, which increments
\* consolidations_performed, exactly when it is the N-th, 2N-th, ... store
\* (N = consolidation_interval); the stores in between run none.
C22_ConsolidationEveryNStores ==
    [][(impl = "core" /\ lastOp'.op = "store")
       => (metrics'.total_quantums % consolidation_interval = 0
             <=> metrics'.consolidations_performed
                    = metrics.consolidations_performed + 1)]_vars

\* The operation ended in an exception instead of a return value
Raised(last) ==
    IF last.op = "cleanup" THEN "raised" \in DOMAIN last ELSE last.ret = StorageError

\* C23: a failure on one record during a consolidation pass or a cleanup is
\* skipped: the operation that runs the pass does not end in an error, and
\* after a cleanup at most the one failing record is left of the rows that
\* were to be deleted.
C23_BadRecordSkipped ==
    [][lastOp'.op \in {"store", "cleanup"}
       => /\ ~Raised(lastOp')
          /\ lastOp'.op = "cleanup" =>
                Cardinality(Doomed(lastOp'.args.threshold)
                               \cap DOMAIN memory_quantums') <= 1]_vars

\* A cleanup that was to delete two rows has failed.
C23_TwoDueCleanupFailed ==
    /\ lastOp.op = "cleanup"
    /\ Raised(lastOp)
    /\ Cardinality({id \in DOMAIN memory_quantums :
                       /\ memory_quantums[id].relevance_score < lastOp.args.threshold
                       /\ memory_quantums[id].access_count < 2}) >= 2

\* C24: the lifecycle state of a record moves by at most one tier per step:
\* whenever the quantum_state of a record changes, in the working set or in
\* its row, the new state is listed in state_transitions for the old state,
\* and the change is active to reinforced or reinforced to crystallized,
\* never active to crystallized.
C24_OneTierPerStep ==
    [][/\ \A id \in DOMAIN active_quantums \cap DOMAIN active_quantums' :
             LET old == active_quantums[id].quantum_state
                 new == active_quantums'[id].quantum_state
             IN  new # old
                 => /\ new \in state_transitions[old]
                    /\ <<old, new>> \in {<<"active", "reinforced">>,
                                         <<"reinforced", "crystallized">>}
       /\ \A id \in DOMAIN cmemory_quantums \cap DOMAIN cmemory_quantums' :
             LET old == cmemory_quantums[id].quantum_state
                 new == cmemory_quantums'[id].quantum_state
             IN  new # old
                 => /\ new \in state_transitions[old]
                    /\ <<old, new>> \in {<<"active", "reinforced">>,
                                         <<"reinforced", "crystallized">>}]_vars

\* A record has been reinforced up to the crystallized state.
C24_Crystallized ==
    \E id \in DOMAIN active_quantums :
       /\ active_quantums[id].quantum_state = "crystallized"
       /\ cmemory_quantums[id].quantum_state = "crystallized"
       /\ active_quantums[id].reinforcement_level = crystallized_after + 1

\* `similarity > 0.3` of _find_related_quantums, in thousandths
similarity_threshold == 300

\* The context_embeddings of a record as a mapping from term to weight
EmbeddingsOf(quantum) ==
    LET embeddings == quantum.context_embeddings
    IN  [term \in {embeddings[i].item.key : i \in DOMAIN embeddings} |->
            embeddings[CHOOSE i \in DOMAIN embeddings :
                          embeddings[i].item.key = term].item.weight]

\* The ids in the associated_quantums of the row of an id
AssociatedIds(table, id) ==
    {table[id].associated_quantums[i] : i \in DOMAIN table[id].associated_quantums}

\* C25: when a new record is stored, every record already in the table whose
\* embedding cosine similarity to the new record is at least the threshold
\* (in whatever order the common terms are summed) is associated with the
\* new record, and the association is recorded on both records.
C25_SimilarRecordsAssociated ==
    [][(impl = "complete" /\ lastOp'.op = "store" /\ lastOp'.created)
       => \A id \in DOMAIN cmemory_quantums \ {lastOp'.ret} :
             LET new == EmbeddingsOf(cmemory_quantums'[lastOp'.ret])
                 old == EmbeddingsOf(cmemory_quantums[id])
             IN  (\A key_order \in KeyOrders(DOMAIN new \cap DOMAIN old) :
                     CalculateEmbeddingSimilarity(new, old, key_order)
                        >= similarity_threshold)
                 => /\ id \in AssociatedIds(cmemory_quantums', lastOp'.ret)
                    /\ lastOp'.ret \in AssociatedIds(cmemory_quantums', id)]_vars

\* The ids of the records in the list a search returned
ReturnedIds(ret) == {ResultId(ret[i]) : i \in DOMAIN ret}

\* C26: a search leaves the access_count and the last_accessed of every
\* record that is not in its returned list as they were, in the table and in
\* the working set, also for a record that matched and was cut off by limit.
C26_SearchFrame ==
    [][(impl = "core" /\ lastOp'.op = "search")
       => \A id \in DOMAIN memory_quantums \ ReturnedIds(lastOp'.ret) :
             /\ memory_quantums'[id].access_count = memory_quantums[id].access_count
             /\ memory_quantums'[id].last_accessed = memory_quantums[id].last_accessed
             /\ id \in CacheIds(quantum_cache) =>
                   /\ CacheGet(quantum_cache', id).access_count
                         = CacheGet(quantum_cache, id).access_count
                   /\ CacheGet(quantum_cache', id).last_accessed
                         = CacheGet(quantum_cache, id).last_accessed]_vars

\* C27: working-set coherence: every record of the working set has a row in
\* the table, with the same relevance_score and the same access_count.
C27_WorkingSetCoherent ==
    impl = "core"
    => \A id \in CacheIds(quantum_cache) :
          /\ id \in DOMAIN memory_quantums
          /\ memory_quantums[id].relevance_score
                = CacheGet(quantum_cache, id).relevance_score
          /\ memory_quantums[id].access_count
                = CacheGet(quantum_cache, id).access_count

\* A search has counted an access of a record of the working set.
C27_CountedInBothPlaces ==
    /\ impl = "core"
    /\ lastOp.op = "search"
    /\ \E id \in CacheIds(quantum_cache) :
          /\ CacheGet(quantum_cache, id).access_count = 2
          /\ memory_quantums[id].access_count = 2

\* C28: the total_quantums that get_memory_stats reports (the counter
\* metrics.total_quantums) is the number of rows of the table after any
\* sequence of stores and cleanups: a store or a cleanup that starts with
\* the two equal ends with the two equal.
C28_TotalIsRowCount ==
    [][(/\ impl = "core"
        /\ lastOp'.op \in {"store", "cleanup"}
        /\ metrics.total_quantums = Cardinality(DOMAIN memory_quantums))
       => metrics'.total_quantums = Cardinality(DOMAIN memory_quantums')]_vars

\* C29: after cleanup_low_relevance has deleted a record nothing refers to
\* it: no edge of quantum_relationships has its id as source or as target,
\* and no record left in the working set has its id in its relationships.
C29_NoDanglingReference ==
    [][(impl = "core" /\ lastOp'.op = "cleanup")
       => \A id \in DOMAIN memory_quantums \ DOMAIN memory_quantums' :
             /\ \A i \in DOMAIN quantum_relationships' :
                   /\ quantum_relationships'[i].source_quantum_id # id
                   /\ quantum_relationships'[i].target_quantum_id # id
             /\ \A i \in DOMAIN quantum_cache' :
                   id \notin Range(quantum_cache'[i].relationships)]_vars

\* C30: the list a search returns has at most limit entries and holds each
\* record id at most once, also when the results from the working set are
\* topped up with results from the table.
C30_SearchDistinctWithinLimit ==
    [][lastOp'.op = "search"
       => /\ Len(lastOp'.ret) <= lastOp'.args.limit
          /\ \A i, j \in DOMAIN lastOp'.ret :
                ResultId(lastOp'.ret[i]) = ResultId(lastOp'.ret[j]) => i = j]_vars

\* A search of the core has returned limit = 2 results, the first from the
\* working set and the second from the table.
C30_ToppedUp ==
    /\ impl = "core"
    /\ lastOp.op = "search"
    /\ lastOp.args.limit = 2
    /\ Len(lastOp.ret) = 2
    /\ lastOp.ret[1].quantum_id \in CacheIds(quantum_cache)
    /\ lastOp.ret[2].quantum_id \notin CacheIds(quantum_cache)

===========================================================================
